---- MODULE Spec2Model ----
(***************************************************************************)
(* Watch-party synchronisation core of iamthere: the useRoomSync hook      *)
(* (src/src/pages/Room.jsx), the VideoPlayer event handlers                *)
(* (src/unnamed/part_002) and the Firebase wrappers (src/src/App.jsx).     *)
(*                                                                         *)
(* Positions are whole seconds.                                            *)
(*                                                                         *)
(* Time.  Timers are kept with the milliseconds that are left before they  *)
(* fire; Tick lets 500 ms pass for every client.  Date.now() of            *)
(* client c is clock + skew[c]: clock is real time, which moves between    *)
(* two store writes, and skew[c] is the offset of c's wall clock.          *)
(*                                                                         *)
(* Adapter.  The YouTube player is outside the repository.  Its commands   *)
(* are fire-and-forget; each state change it goes through is queued in     *)
(* player[c].events and is delivered to handleStateChange at any later     *)
(* time.  Every queued change carries the cause of the command (a ghost    *)
(* field, read only by the properties).                                    *)
(***************************************************************************)
EXTENDS Integers, Sequences, FiniteSets, TLC

\* ------------------------------------------------------------------ bounds
MaxActs == 1
MaxWrites == 2
MaxSkew == 2
MaxPos == 3
MaxInbox == 2
MaxEvents == 2
MaxPending == 1
MaxFails == 1
MaxFaults == 1
MaxChats == 2
MaxCalls == 2
MaxCands == 1
MaxEnds == 1

\* --------------------------------------------------------- program constants
SEEK_THRESHOLD == 2
SEEK_JUMP == 2
PAUSE_DELAY == 500
SETTLE_DELAY == 1000

UNSTARTED == -1
ENDED == 0
PLAYING == 1
PAUSED == 2
BUFFERING == 3
CUED == 5
PLAYER_STATES == {UNSTARTED, ENDED, PLAYING, PAUSED, BUFFERING, CUED}

Clients == {1, 2}
\* the client whose room view is followed; the other user is a writer
Here == {1}
VideoIds == {"a", "b"}
NoVideo == ""
Positions == 0..MaxPos
SyncError == "Failed to sync video state"
ChatError == "Failed to send message"
MAX_MESSAGE == 500
NoError == "null"


Abs(x) == IF x < 0 THEN -x ELSE x

\* ------------------------------------------------------------------- state
VARIABLES
  store,                \* rooms/<roomId>: the shared PlaybackState record
  clock,                \* real time, advanced by every store write
  skew,                 \* skew[c]: offset of client c's wall clock
  mounted,              \* clients whose room view is mounted and subscribed
  inbox,                \* inbox[c]: snapshots the store has pushed, not yet handled;
                        \* again marks a snapshot that was pushed before, from
                        \* the client whose write caused the push, 0 when
                        \* no write did (ghosts)
  pending,              \* pending[c]: store writes of c awaiting their outcome
  roomState,            \* useState roomState of useRoomSync
  isConnected,          \* useState isConnected
  isLoading,            \* useState isLoading
  error,                \* useState error
  isRemoteUpdate,       \* useRef isRemoteUpdate
  lastProcessedUpdate,  \* useRef lastProcessedUpdate
  currentVideoIdRef,    \* useRef currentVideoIdRef
  timers,               \* timers[c]: pending setTimeout callbacks, in firing order
  player,               \* player[c]: the VideoPlayer handle and the YouTube player
  captured,             \* captured[c]: roomState seen by the handlers bound to the player
  lastReportedTime,     \* useRef lastReportedTime of VideoPlayer
  isSeeking,            \* useRef isSeeking of VideoPlayer
  acts,                 \* number of user gestures and outside writes so far
  fails,                \* number of rejected store writes so far (MaxFails where the
                        \* store of the run rejects nothing)
  faults,               \* number of player commands that threw so far (MaxFaults
                        \* where the player of the run never throws)
  listeners,            \* clients whose onValue listeners are registered
  messages,             \* rooms/<roomId>/messages, in key order
  msgInbox,             \* msgInbox[c]: message snapshots pushed, not yet handled
  chatView,             \* useState messages of useRoomSync
  roomExists,           \* whether rooms/<roomId> holds a record
  isVerifying,          \* useState isVerifying of Room
  roomNotFound,         \* useState roomNotFound of Room
  userName,             \* useState userName of Room, one per client
  webrtc,               \* rooms/<roomId>/webrtc: offer, answer, ice-candidates per location
  sigBox,               \* sigBox[c]: offers and answers delivered to c's listeners, not yet handled
  iceBox,               \* iceBox[c]: candidate snapshots delivered to c's listener, not yet handled
  peerConnectionRef,    \* useRef peerConnectionRef of useWebRTC
  isCallerRef,          \* useRef isCallerRef
  processedOfferTimestamp,   \* useRef processedOfferTimestamp
  processedAnswerTimestamp,  \* useRef processedAnswerTimestamp
  processedCandidates,  \* the Set of the candidate listener effect
  localStream,          \* useState localStream: whether there is one
  answering,            \* answering[c]: the offer an answerCall in progress answers
  ending,               \* ending[c]: an endCall is at its await
  calls,                \* number of startCallShared calls so far
  ends,                 \* number of endCall calls so far
  answers,              \* ghost: answers[c]: the offers c has answered, in order
  latest,               \* ghost: the written PlaybackStates with the greatest lastUpdated
  last                  \* ghost: what the last step did

storeVars == <<store, clock, skew, mounted, inbox, pending, latest>>
\* an outside input: a user gesture or a write by something other than this client
Input == acts < MaxActs /\ acts' = acts + 1
hookVars == <<roomState, isConnected, isLoading, error, isRemoteUpdate,
              lastProcessedUpdate, currentVideoIdRef, timers>>
playerVars == <<player, captured, lastReportedTime, isSeeking>>
chatVars == <<messages, msgInbox, chatView>>
joinVars == <<roomExists, isVerifying, roomNotFound>>
callVars == <<webrtc, sigBox, iceBox, peerConnectionRef, isCallerRef,
              processedOfferTimestamp, processedAnswerTimestamp,
              processedCandidates, localStream, answering, ending, calls, ends,
              answers>>
\* what the call signalling leaves alone
roomVars == <<store, skew, mounted, inbox, pending, latest, hookVars, playerVars,
              acts, fails, faults, listeners, chatVars, joinVars, userName>>
vars == <<store, clock, skew, mounted, inbox, pending, latest,
          roomState, isConnected, isLoading, error, isRemoteUpdate,
          lastProcessedUpdate, currentVideoIdRef, timers,
          player, captured, lastReportedTime, isSeeking, acts, fails, faults,
          listeners, messages, msgInbox, chatView,
          roomExists, isVerifying, roomNotFound, userName,
          webrtc, sigBox, iceBox, peerConnectionRef, isCallerRef,
          processedOfferTimestamp, processedAnswerTimestamp,
          processedCandidates, localStream, answering, ending, calls, ends,
          answers, last>>

\* the name under which client c writes
UserName(c) == userName[c]

\* the users chose names of their own
OwnNames == [c \in Clients |-> IF c = 1 THEN "alice" ELSE "bob"]

\* nobody entered a name: localStorage.getItem('iamthere_userName') || 'Guest'
GuestNames == [c \in Clients |-> "Guest"]

\* ---------------------------------------------------------------- records
PlaybackState(v, playing, t, ts, by) ==
  [videoId |-> v, isPlaying |-> playing, currentTime |-> t,
   lastUpdated |-> ts, updatedBy |-> by]

InitialRoomState == PlaybackState(NoVideo, FALSE, 0, 0, "")

NoPlayer ==
  [stage |-> "none", state |-> UNSTARTED, time |-> 0, video |-> NoVideo,
   events |-> <<>>]

Event(s, cause) == [state |-> s, cause |-> cause]

Timer(kind, left, cause) == [kind |-> kind, left |-> left, cause |-> cause]

NoLast ==
  [c |-> 0, op |-> "none", branch |-> "none", cmds |-> <<>>, pub |-> "none",
   cause |-> "none", st |-> InitialRoomState, data |-> InitialRoomState,
   proj |-> NoVideo, ptime |-> 0, pstate |-> UNSTARTED, hp |-> FALSE,
   ref |-> NoVideo, req |-> NoVideo, text |-> [pad |-> 0, core |-> 0],
   snap |-> <<>>, known |-> NoVideo, armed |-> <<>>, from |-> 0]

DateNow(c) == clock + skew[c]

\* ----------------------------------------------------------------- timers
\* a setTimeout call that schedules nothing
Arm_dropped(ts, t) == ts

\* setTimeout: callbacks fire in the order of their due time, and in the
\* order of the setTimeout calls when the due times are equal
RECURSIVE Arm(_, _)
Arm(ts, t) ==
  IF ts = <<>> THEN <<t>>
  ELSE IF Head(ts).left <= t.left THEN <<Head(ts)>> \o Arm(Tail(ts), t)
  ELSE <<t>> \o ts

\* the step of time: every delay is a multiple of the shortest one
TickLength == PAUSE_DELAY

Elapse(ts) == [i \in 1..Len(ts) |-> [ts[i] EXCEPT !.left = @ - TickLength]]

NoneDue(ts) == \A i \in 1..Len(ts) : ts[i].left > 0

\* ---------------------------------------------------------------- adapter
\* playerRef.current of Room: the handle exists once VideoPlayer is rendered
HandlePresent(p) == p.stage # "none"

\* the state the player is in once its queued changes have happened
EffState(p) ==
  IF p.events = <<>> THEN p.state ELSE p.events[Len(p.events)].state

getCurrentTime(p) == IF p.stage = "ready" THEN p.time ELSE 0

getPlayerState(p) == IF p.stage = "ready" THEN p.state ELSE UNSTARTED

loadVideoById(p, v, t, cause) ==
  IF p.stage # "ready" THEN p
  ELSE [p EXCEPT !.video = v, !.time = t,
                 !.events = @ \o <<Event(PLAYING, cause)>>]

seekTo(p, t, cause) ==
  IF p.stage # "ready" THEN p
  ELSE IF EffState(p) \in {PLAYING, BUFFERING}
       THEN [p EXCEPT !.time = t,
                      !.events = @ \o <<Event(BUFFERING, cause), Event(PLAYING, cause)>>]
  ELSE IF EffState(p) = PAUSED
       THEN [p EXCEPT !.time = t, !.events = @ \o <<Event(PAUSED, cause)>>]
  ELSE [p EXCEPT !.time = t]

playVideo(p, cause) ==
  IF p.stage # "ready" \/ EffState(p) \in {PLAYING, BUFFERING} THEN p
  ELSE [p EXCEPT !.events = @ \o <<Event(PLAYING, cause)>>]

pauseVideo(p, cause) ==
  IF p.stage # "ready" \/ EffState(p) \notin {PLAYING, BUFFERING} THEN p
  ELSE [p EXCEPT !.events = @ \o <<Event(PAUSED, cause)>>]

\* ------------------------------------------------- room callback, decisions
\* the check with < for <=: a state as old as the last applied one is applied
IsStale_strict(data, lastProcessed) == data.lastUpdated < lastProcessed

\* "Skipping old update"
IsStale(data, lastProcessed) == data.lastUpdated <= lastProcessed

\* the timestamp of an applied state is not recorded
NextProcessed_kept(lastProcessed, data) == lastProcessed

\* lastProcessedUpdate.current = data.lastUpdated
NextProcessed(lastProcessed, data) == data.lastUpdated

\* no update counts as the client's own
IsOwnUpdate_never(c, data) == FALSE

\* const isOwnUpdate = data.updatedBy === userName
IsOwnUpdate(c, data) == data.updatedBy = UserName(c)

\* "Initialize currentVideoIdRef on first load if empty"
InitRef(ref, data) ==
  IF ref = NoVideo /\ data.videoId # NoVideo THEN data.videoId ELSE ref

\* a state never counts as a change of video
VideoChanged_never(ref, data) == FALSE

VideoChanged(ref, data) == data.videoId # NoVideo /\ data.videoId # ref

\* the comparison with >= for >
NeedsSeek_atThreshold(playerTime, t) == Abs(playerTime - t) >= SEEK_THRESHOLD

NeedsSeek(playerTime, t) == Abs(playerTime - t) > SEEK_THRESHOLD

NeedsPlay(data, playerState) == data.isPlaying /\ playerState # PLAYING

\* pausing whatever the player reports
NeedsPause_always(data, playerState) == ~data.isPlaying

NeedsPause(data, playerState) == ~data.isPlaying /\ playerState = PLAYING

\* the "else" arm of the remote branch: seek, then play or pause
SameVideoApply(p, data) ==
  LET doSeek == NeedsSeek(getCurrentTime(p), data.currentTime)
      p1 == IF doSeek THEN seekTo(p, data.currentTime, "remote") ELSE p
      st == getPlayerState(p1)
      doPlay == NeedsPlay(data, st)
      doPause == ~doPlay /\ NeedsPause(data, st)
      p2 == IF doPlay THEN playVideo(p1, "remote")
            ELSE IF doPause THEN pauseVideo(p1, "remote") ELSE p1
  IN [player |-> p2,
      cmds |-> (IF doSeek THEN <<"seekTo">> ELSE <<>>)
               \o (IF doPlay THEN <<"playVideo">>
                   ELSE IF doPause THEN <<"pauseVideo">> ELSE <<>>)]

\* the remote branch's "Update the player if it exists"
RemoteApply(p, ref, data) ==
  IF ~HandlePresent(p)
  THEN [player |-> p, ref |-> ref, cmds |-> <<>>, pauseLater |-> FALSE]
  ELSE IF VideoChanged(ref, data)
  THEN [player |-> loadVideoById(p, data.videoId, data.currentTime, "remote"),
        ref |-> data.videoId, cmds |-> <<"loadVideoById">>,
        pauseLater |-> ~data.isPlaying]
  ELSE [player |-> SameVideoApply(p, data).player, ref |-> ref,
        cmds |-> SameVideoApply(p, data).cmds, pauseLater |-> FALSE]

\* the own-update branch's "we need to load it on our player too"
OwnApply(p, ref, data) ==
  IF VideoChanged(ref, data) /\ HandlePresent(p)
  THEN [player |-> loadVideoById(p, data.videoId, data.currentTime, "own"),
        ref |-> data.videoId, cmds |-> <<"loadVideoById">>,
        pauseLater |-> ~data.isPlaying]
  ELSE [player |-> p, ref |-> ref, cmds |-> <<>>, pauseLater |-> FALSE]

\* setRoomState((prev) => ({...prev, ...data}))
MergeData(prev, data) ==
  [prev EXCEPT !.videoId = data.videoId, !.isPlaying = data.isPlaying,
               !.currentTime = data.currentTime,
               !.lastUpdated = data.lastUpdated, !.updatedBy = data.updatedBy]

\* ------------------------------------------------------------------- store
\* the PlaybackStates with the greatest lastUpdated among ls and s
Newest(ls, s) ==
  IF \A x \in ls : x.lastUpdated < s.lastUpdated THEN {s}
  ELSE IF \E x \in ls : x.lastUpdated > s.lastUpdated THEN ls
  ELSE ls \cup {s}

\* onValue(roomRef, ...): every subscribed client is pushed the new snapshot
Push(boxes, snapshot, again, from) ==
  [d \in Clients |->
     IF d \in listeners
     THEN Append(boxes[d], [data |-> snapshot, again |-> again, from |-> from])
     ELSE boxes[d]]

CanPush == \A d \in listeners : Len(inbox[d]) < MaxInbox

\* updateVideoState(roomId, videoState, updatedBy): update() of the room
\* record with lastUpdated: Date.now(); ok = FALSE is a rejected write
updateVideoState(c, videoState, ok) ==
  LET written == PlaybackState(videoState.videoId, videoState.isPlaying,
                               videoState.currentTime, DateNow(c), UserName(c))
  IN IF ok
     THEN /\ clock < 2 + MaxWrites
          /\ CanPush
          /\ store' = written
          /\ inbox' = Push(inbox, written, FALSE, c)
          /\ latest' = Newest(latest, written)
          /\ clock' = clock + 1
          /\ UNCHANGED fails
     ELSE /\ fails < MaxFails
          /\ fails' = fails + 1
          /\ UNCHANGED <<store, inbox, latest, clock>>

\* ------------------------------------------------------------- rendering
\* the main view of Room is rendered: the room was verified and found
Shown(c) == ~isVerifying[c] /\ ~roomNotFound[c]

\* the main view renders VideoPlayer once roomState.videoId is set: the handle exists
\* from then on, and the create-player effect (the API script being loaded)
\* makes the YouTube player with the handlers of that render
Render(shown, p, rs) ==
  IF shown /\ p.stage = "none" /\ rs.videoId # NoVideo
  THEN [NoPlayer EXCEPT !.stage = "created", !.video = rs.videoId]
  ELSE p

\* the roomState the bound handlers read: that of the render they were made in
Capture(shown, cap, p, rs) ==
  IF shown /\ p.stage = "none" /\ rs.videoId # NoVideo THEN rs ELSE cap

\* ------------------------------------------------------ outgoing updates
Undefined == "undefined"

\* newState.videoId ?? roomState.videoId, and so on
MergeState(newState, rs) ==
  [videoId |-> IF newState.videoId = Undefined THEN rs.videoId ELSE newState.videoId,
   isPlaying |-> newState.isPlaying,
   currentTime |-> newState.currentTime]

\* updateState without its isRemoteUpdate check
Suppressed_never(c) == FALSE

\* "Check if this is a remote update (ignore to prevent loops)"
Suppressed(c) == isRemoteUpdate[c]

\* updateState(newState) up to its await; rs is the roomState of the render
\* whose closure is running
updateState(c, newState, rs, cause) ==
  IF Suppressed(c)
  THEN /\ UNCHANGED <<store, inbox, latest, clock, pending, fails>>
       /\ last' = [NoLast EXCEPT !.c = c, !.op = "intent", !.pub = "suppressed",
                                 !.cause = cause]
  ELSE \E ok \in BOOLEAN :
         /\ Len(pending[c]) < MaxPending
         /\ updateVideoState(c, MergeState(newState, rs), ok)
         /\ pending' = [pending EXCEPT ![c] =
                          Append(@, [st |-> MergeState(newState, rs), ok |-> ok])]
         /\ last' = [NoLast EXCEPT !.c = c, !.op = "intent",
                       !.pub = IF ok THEN "ok" ELSE "fail", !.cause = cause,
                       !.st = PlaybackState(MergeState(newState, rs).videoId,
                                            newState.isPlaying, newState.currentTime,
                                            DateNow(c), UserName(c)),
                       !.proj = roomState[c].videoId, !.req = newState.videoId]

sendPlay(c, currentTime, rs, cause) ==
  updateState(c, [videoId |-> Undefined, isPlaying |-> TRUE,
                  currentTime |-> currentTime], rs, cause)

sendPause(c, currentTime, rs, cause) ==
  updateState(c, [videoId |-> Undefined, isPlaying |-> FALSE,
                  currentTime |-> currentTime], rs, cause)

\* a seek reported as paused whatever the player does
sendSeek_paused(c, currentTime, playing, rs, cause) ==
  updateState(c, [videoId |-> Undefined, isPlaying |-> FALSE,
                  currentTime |-> currentTime], rs, cause)

sendSeek(c, currentTime, playing, rs, cause) ==
  updateState(c, [videoId |-> Undefined, isPlaying |-> playing,
                  currentTime |-> currentTime], rs, cause)

\* a load that keeps the play state and the position of the projection
loadVideo_keepState(c, videoId, rs, cause) ==
  updateState(c, [videoId |-> videoId, isPlaying |-> rs.isPlaying,
                  currentTime |-> rs.currentTime], rs, cause)

loadVideo(c, videoId, rs, cause) ==
  updateState(c, [videoId |-> videoId, isPlaying |-> TRUE, currentTime |-> 0],
              rs, cause)

\* the rest of updateState: the write is acknowledged (setRoomState) or
\* rejected (catch: setError)
Ack(c) ==
  /\ c \in mounted
  /\ pending[c] # <<>>
  /\ LET w == Head(pending[c])
     IN /\ pending' = [pending EXCEPT ![c] = Tail(@)]
        /\ IF w.ok
           THEN /\ roomState' = [roomState EXCEPT ![c] =
                     [@ EXCEPT !.videoId = w.st.videoId,
                               !.isPlaying = w.st.isPlaying,
                               !.currentTime = w.st.currentTime,
                               !.lastUpdated = DateNow(c),
                               !.updatedBy = UserName(c)]]
                /\ player' = [player EXCEPT ![c] = Render(Shown(c), @, w.st)]
                /\ captured' = [captured EXCEPT ![c] =
                                  Capture(Shown(c), @, player[c], roomState'[c])]
                /\ UNCHANGED error
           ELSE /\ error' = [error EXCEPT ![c] = SyncError]
                /\ UNCHANGED <<roomState, player, captured>>
        /\ last' = [NoLast EXCEPT !.c = c, !.op = "ack",
                      !.pub = IF w.ok THEN "ok" ELSE "fail",
                      !.st = PlaybackState(w.st.videoId, w.st.isPlaying,
                                           w.st.currentTime, 0, UserName(c))]
  /\ UNCHANGED <<store, clock, skew, mounted, inbox, latest>>
  /\ UNCHANGED <<isConnected, isLoading, isRemoteUpdate, lastProcessedUpdate,
                 currentVideoIdRef, timers>>
  /\ UNCHANGED <<lastReportedTime, isSeeking>>
  /\ UNCHANGED <<acts, fails>>
  /\ UNCHANGED chatVars
  /\ UNCHANGED listeners
  /\ UNCHANGED faults
  /\ UNCHANGED joinVars
  /\ UNCHANGED userName
  /\ UNCHANGED callVars

\* ------------------------------------------------------------ room callback
ArmPause(ts, pauseLater, cause) ==
  IF pauseLater THEN Arm(ts, Timer("pause", PAUSE_DELAY, cause)) ELSE ts

\* the setTimeout calls of a branch, in their order (ghost)
Armed(pauseLater, settle) ==
  (IF pauseLater THEN <<"pause">> ELSE <<>>) \o (IF settle THEN <<"settle">> ELSE <<>>)

\* the rest of the callback when the first player command it issues throws.
\* Own-update branch (no try): the callback ends there, after the ref was
\* set.  Remote branch (try/catch): the commands are skipped, the rest runs
Thrown(c, data, p, own, rem, about) ==
  IF IsOwnUpdate(c, data)
  THEN /\ p.stage = "ready"
       /\ own.cmds # <<>>
       /\ currentVideoIdRef' = [currentVideoIdRef EXCEPT ![c] = own.ref]
       /\ UNCHANGED <<roomState, isRemoteUpdate, lastProcessedUpdate, timers,
                      player, captured>>
       /\ last' = [about EXCEPT !.branch = "ownThrown", !.cmds = <<Head(own.cmds)>>]
  ELSE /\ p.stage = "ready"
       /\ rem.cmds # <<>>
       /\ isRemoteUpdate' = [isRemoteUpdate EXCEPT ![c] = TRUE]
       /\ roomState' = [roomState EXCEPT ![c] = MergeData(@, data)]
       /\ currentVideoIdRef' = [currentVideoIdRef EXCEPT ![c] = rem.ref]
       /\ player' = [player EXCEPT ![c] = Render(Shown(c), p, data)]
       /\ captured' = [captured EXCEPT ![c] =
                         Capture(Shown(c), @, p, MergeData(roomState[c], data))]
       /\ lastProcessedUpdate' =
            [lastProcessedUpdate EXCEPT ![c] = NextProcessed(@, data)]
       /\ timers' = [timers EXCEPT ![c] =
                       Arm(@, Timer("settle", SETTLE_DELAY, "remote"))]
       /\ last' = [about EXCEPT !.branch = "remoteThrown", !.cmds = <<Head(rem.cmds)>>,
                                 !.armed = Armed(FALSE, TRUE)]

\* the callback given to subscribeToRoom, run on the oldest undelivered snapshot
OnRoomData(c) ==
  /\ c \in listeners
  /\ inbox[c] # <<>>
  /\ \E boom \in BOOLEAN :
     LET data == Head(inbox[c]).data
         p == player[c]
         ref == InitRef(currentVideoIdRef[c], data)
         own == OwnApply(p, ref, data)
         rem == RemoteApply(p, ref, data)
         seenBefore == Head(inbox[c]).again
         about == [NoLast EXCEPT !.c = c, !.op = "roomData", !.data = data,
                     !.ptime = getCurrentTime(p), !.pstate = getPlayerState(p),
                     !.hp = HandlePresent(p), !.ref = currentVideoIdRef[c],
                     !.known = ref, !.from = Head(inbox[c]).from,
                     !.cause = IF seenBefore THEN "again" ELSE "first"]
     IN /\ inbox' = [inbox EXCEPT ![c] = Tail(@)]
        /\ isConnected' = [isConnected EXCEPT ![c] = TRUE]
        /\ isLoading' = [isLoading EXCEPT ![c] = FALSE]
        /\ error' = [error EXCEPT ![c] = NoError]
        /\ IF IsStale(data, lastProcessedUpdate[c])
           THEN /\ ~boom
                /\ currentVideoIdRef' = [currentVideoIdRef EXCEPT ![c] = ref]
                /\ UNCHANGED <<roomState, isRemoteUpdate, lastProcessedUpdate,
                               timers, player, captured, faults>>
                /\ last' = [about EXCEPT !.branch = "stale"]
           ELSE IF boom
           THEN /\ faults < MaxFaults
                /\ faults' = faults + 1
                /\ Thrown(c, data, p, own, rem, about)
           ELSE IF IsOwnUpdate(c, data)
           THEN /\ Len(own.player.events) <= MaxEvents
                /\ currentVideoIdRef' = [currentVideoIdRef EXCEPT ![c] = own.ref]
                /\ player' = [player EXCEPT ![c] = Render(Shown(c), own.player, data)]
                /\ captured' = [captured EXCEPT ![c] =
                                  Capture(Shown(c), @, p, MergeData(roomState[c], data))]
                /\ timers' = [timers EXCEPT ![c] = ArmPause(@, own.pauseLater, "own")]
                /\ roomState' = [roomState EXCEPT ![c] = MergeData(@, data)]
                /\ lastProcessedUpdate' =
                     [lastProcessedUpdate EXCEPT ![c] = NextProcessed(@, data)]
                /\ UNCHANGED <<isRemoteUpdate, faults>>
                /\ last' = [about EXCEPT !.branch = "own", !.cmds = own.cmds,
                                          !.armed = Armed(own.pauseLater, FALSE)]
           ELSE /\ Len(rem.player.events) <= MaxEvents
                /\ isRemoteUpdate' = [isRemoteUpdate EXCEPT ![c] = TRUE]
                /\ roomState' = [roomState EXCEPT ![c] = MergeData(@, data)]
                /\ currentVideoIdRef' = [currentVideoIdRef EXCEPT ![c] = rem.ref]
                /\ player' = [player EXCEPT ![c] = Render(Shown(c), rem.player, data)]
                /\ captured' = [captured EXCEPT ![c] =
                                  Capture(Shown(c), @, p, MergeData(roomState[c], data))]
                /\ lastProcessedUpdate' =
                     [lastProcessedUpdate EXCEPT ![c] = NextProcessed(@, data)]
                /\ timers' = [timers EXCEPT ![c] =
                     Arm(ArmPause(@, rem.pauseLater, "remote"),
                         Timer("settle", SETTLE_DELAY, "remote"))]
                /\ UNCHANGED faults
                /\ last' = [about EXCEPT !.branch = "remote", !.cmds = rem.cmds,
                                          !.armed = Armed(rem.pauseLater, TRUE)]
  /\ UNCHANGED <<store, clock, skew, mounted, pending, latest>>
  /\ UNCHANGED <<lastReportedTime, isSeeking>>
  /\ UNCHANGED <<acts, fails>>
  /\ UNCHANGED chatVars
  /\ UNCHANGED listeners
  /\ UNCHANGED joinVars
  /\ UNCHANGED userName
  /\ UNCHANGED callVars

\* a due setTimeout callback runs
FireTimer(c) ==
  /\ timers[c] # <<>>
  /\ Head(timers[c]).left = 0
  /\ LET t == Head(timers[c])
     IN /\ timers' = [timers EXCEPT ![c] = Tail(@)]
        /\ IF t.kind = "settle"
           THEN /\ isRemoteUpdate' = [isRemoteUpdate EXCEPT ![c] = FALSE]
                /\ UNCHANGED player
           ELSE /\ Len(pauseVideo(player[c], t.cause).events) <= MaxEvents
                /\ player' = [player EXCEPT ![c] = pauseVideo(@, t.cause)]
                /\ UNCHANGED isRemoteUpdate
        /\ last' = [NoLast EXCEPT !.c = c, !.op = "timer", !.branch = t.kind,
                      !.cause = t.cause]
  /\ UNCHANGED storeVars
  /\ UNCHANGED <<roomState, isConnected, isLoading, error, lastProcessedUpdate,
                 currentVideoIdRef>>
  /\ UNCHANGED <<captured, lastReportedTime, isSeeking>>
  /\ UNCHANGED <<acts, fails>>
  /\ UNCHANGED chatVars
  /\ UNCHANGED listeners
  /\ UNCHANGED faults
  /\ UNCHANGED joinVars
  /\ UNCHANGED userName
  /\ UNCHANGED callVars

\* 500 ms pass; a due callback runs before more time passes
Tick ==
  /\ \E c \in Clients : timers[c] # <<>>
  /\ \A c \in Clients : NoneDue(timers[c])
  /\ timers' = [c \in Clients |-> Elapse(timers[c])]
  /\ last' = NoLast
  /\ UNCHANGED storeVars
  /\ UNCHANGED <<roomState, isConnected, isLoading, error, isRemoteUpdate,
                 lastProcessedUpdate, currentVideoIdRef>>
  /\ UNCHANGED playerVars
  /\ UNCHANGED <<acts, fails>>
  /\ UNCHANGED chatVars
  /\ UNCHANGED listeners
  /\ UNCHANGED faults
  /\ UNCHANGED joinVars
  /\ UNCHANGED userName
  /\ UNCHANGED callVars

\* -------------------------------------------------------------- VideoPlayer
\* onReady: handlePlayerReady of the render the player was created in
handlePlayerReady(c) ==
  /\ c \in mounted
  /\ player[c].stage = "created"
  /\ LET p == [player[c] EXCEPT !.stage = "ready", !.state = CUED]
         rs == captured[c]
     IN IF rs.videoId # NoVideo
        THEN /\ player' = [player EXCEPT ![c] =
                             loadVideoById(p, rs.videoId, rs.currentTime, "ready")]
             /\ timers' = [timers EXCEPT ![c] = ArmPause(@, ~rs.isPlaying, "ready")]
        ELSE /\ player' = [player EXCEPT ![c] = p]
             /\ UNCHANGED timers
  /\ last' = NoLast
  /\ UNCHANGED storeVars
  /\ UNCHANGED <<roomState, isConnected, isLoading, error, isRemoteUpdate,
                 lastProcessedUpdate, currentVideoIdRef>>
  /\ UNCHANGED <<captured, lastReportedTime, isSeeking>>
  /\ UNCHANGED <<acts, fails>>
  /\ UNCHANGED chatVars
  /\ UNCHANGED listeners
  /\ UNCHANGED faults
  /\ UNCHANGED joinVars
  /\ UNCHANGED userName
  /\ UNCHANGED callVars

\* what handleStateChange reports for a state change at time t
HandlerIntent(state, t, lrt, seeking) ==
  IF state = PLAYING
  THEN IF Abs(t - lrt) > SEEK_JUMP /\ ~seeking THEN "seekPlaying" ELSE "play"
  ELSE IF state = PAUSED
  THEN IF Abs(t - lrt) > SEEK_JUMP THEN "seekPaused" ELSE "pause"
  ELSE "none"

NextSeeking(state, t, lrt, seeking) ==
  IF state = PLAYING THEN FALSE
  ELSE IF state \in {PAUSED, BUFFERING} /\ Abs(t - lrt) > SEEK_JUMP THEN TRUE
  ELSE seeking

NextReported(state, t, lrt) == IF state \in {PLAYING, PAUSED} THEN t ELSE lrt

\* the player goes through its next state change and fires onStateChange
handleStateChange(c) ==
  /\ c \in mounted
  /\ player[c].stage = "ready"
  /\ player[c].events # <<>>
  /\ LET e == Head(player[c].events)
         t == player[c].time
         intent == HandlerIntent(e.state, t, lastReportedTime[c], isSeeking[c])
         quiet == [NoLast EXCEPT !.c = c, !.op = "event", !.cause = e.cause,
                                 !.pstate = e.state, !.ptime = t]
     IN /\ player' = [player EXCEPT ![c] =
                        [@ EXCEPT !.state = e.state, !.events = Tail(@)]]
        /\ IF isRemoteUpdate[c]
           THEN /\ UNCHANGED <<lastReportedTime, isSeeking>>
                /\ UNCHANGED <<store, inbox, latest, clock, pending, fails>>
                /\ last' = [quiet EXCEPT !.pub = "suppressed"]
           ELSE /\ lastReportedTime' = [lastReportedTime EXCEPT ![c] =
                                          NextReported(e.state, t, @)]
                /\ isSeeking' = [isSeeking EXCEPT ![c] =
                                   NextSeeking(e.state, t, lastReportedTime[c], @)]
                /\ IF intent = "play" THEN sendPlay(c, t, captured[c], e.cause)
                   ELSE IF intent = "pause" THEN sendPause(c, t, captured[c], e.cause)
                   ELSE IF intent = "seekPlaying"
                   THEN sendSeek(c, t, TRUE, captured[c], e.cause)
                   ELSE IF intent = "seekPaused"
                   THEN sendSeek(c, t, FALSE, captured[c], e.cause)
                   ELSE /\ UNCHANGED <<store, inbox, latest, clock, pending, fails>>
                        /\ last' = quiet
  /\ UNCHANGED <<skew, mounted>>
  /\ UNCHANGED hookVars
  /\ UNCHANGED captured
  /\ UNCHANGED acts
  /\ UNCHANGED chatVars
  /\ UNCHANGED listeners
  /\ UNCHANGED faults
  /\ UNCHANGED joinVars
  /\ UNCHANGED userName
  /\ UNCHANGED callVars

\* the user presses play, pauses, or drags the timeline of the player
UserPlay(c) ==
  /\ c \in mounted
  /\ player[c].stage = "ready"
  /\ EffState(player[c]) \notin {PLAYING, BUFFERING}
  /\ Len(player[c].events) < MaxEvents
  /\ player' = [player EXCEPT ![c] = playVideo(@, "user")]
  /\ last' = NoLast
  /\ Input
  /\ UNCHANGED fails
  /\ UNCHANGED storeVars
  /\ UNCHANGED hookVars
  /\ UNCHANGED <<captured, lastReportedTime, isSeeking>>
  /\ UNCHANGED chatVars
  /\ UNCHANGED listeners
  /\ UNCHANGED faults
  /\ UNCHANGED joinVars
  /\ UNCHANGED userName
  /\ UNCHANGED callVars

UserPause(c) ==
  /\ c \in mounted
  /\ player[c].stage = "ready"
  /\ EffState(player[c]) \in {PLAYING, BUFFERING}
  /\ Len(player[c].events) < MaxEvents
  /\ player' = [player EXCEPT ![c] = pauseVideo(@, "user")]
  /\ last' = NoLast
  /\ Input
  /\ UNCHANGED fails
  /\ UNCHANGED storeVars
  /\ UNCHANGED hookVars
  /\ UNCHANGED <<captured, lastReportedTime, isSeeking>>
  /\ UNCHANGED chatVars
  /\ UNCHANGED listeners
  /\ UNCHANGED faults
  /\ UNCHANGED joinVars
  /\ UNCHANGED userName
  /\ UNCHANGED callVars

UserSeek(c) ==
  /\ c \in mounted
  /\ player[c].stage = "ready"
  /\ \E t \in Positions :
       /\ t # player[c].time
       /\ Len(seekTo(player[c], t, "user").events) <= MaxEvents
       /\ player' = [player EXCEPT ![c] = seekTo(@, t, "user")]
  /\ last' = NoLast
  /\ Input
  /\ UNCHANGED fails
  /\ UNCHANGED storeVars
  /\ UNCHANGED hookVars
  /\ UNCHANGED <<captured, lastReportedTime, isSeeking>>
  /\ UNCHANGED chatVars
  /\ UNCHANGED listeners
  /\ UNCHANGED faults
  /\ UNCHANGED joinVars
  /\ UNCHANGED userName
  /\ UNCHANGED callVars

\* playback moves the position on by a second
Advance(c) ==
  /\ c \in mounted
  /\ player[c].stage = "ready"
  /\ player[c].state = PLAYING
  /\ player[c].time < MaxPos
  /\ player' = [player EXCEPT ![c] = [@ EXCEPT !.time = @ + 1]]
  /\ last' = NoLast
  /\ Input
  /\ UNCHANGED fails
  /\ UNCHANGED storeVars
  /\ UNCHANGED hookVars
  /\ UNCHANGED <<captured, lastReportedTime, isSeeking>>
  /\ UNCHANGED chatVars
  /\ UNCHANGED listeners
  /\ UNCHANGED faults
  /\ UNCHANGED joinVars
  /\ UNCHANGED userName
  /\ UNCHANGED callVars

\* ------------------------------------------------------------ Room handlers
\* handleLoadVideo with a valid YouTube id
handleLoadVideo(c) ==
  /\ c \in mounted
  /\ Shown(c)
  /\ \E v \in VideoIds : loadVideo(c, v, roomState[c], "load")
  /\ Input
  /\ UNCHANGED <<skew, mounted>>
  /\ UNCHANGED hookVars
  /\ UNCHANGED playerVars
  /\ UNCHANGED chatVars
  /\ UNCHANGED listeners
  /\ UNCHANGED faults
  /\ UNCHANGED joinVars
  /\ UNCHANGED userName
  /\ UNCHANGED callVars

\* handleMicStatusChange(true)
handleMicStatusChange(c) ==
  /\ c \in mounted
  /\ HandlePresent(player[c])
  /\ Len(pauseVideo(player[c], "mic").events) <= MaxEvents
  /\ player' = [player EXCEPT ![c] = pauseVideo(@, "mic")]
  /\ sendPause(c, getCurrentTime(player[c]), roomState[c], "micOn")
  /\ Input
  /\ UNCHANGED <<skew, mounted>>
  /\ UNCHANGED hookVars
  /\ UNCHANGED <<captured, lastReportedTime, isSeeking>>
  /\ UNCHANGED chatVars
  /\ UNCHANGED listeners
  /\ UNCHANGED faults
  /\ UNCHANGED joinVars
  /\ UNCHANGED userName
  /\ UNCHANGED callVars

\* the unsubscribe function that subscribeToRoom returned is called
Unsubscribed_kept(ls, c) == ls

Unsubscribed(ls, c) == ls \ {c}

\* the user leaves the room view: the cleanups of the subscription effects
\* and of VideoPlayer run
Unmount(c) ==
  /\ c \in mounted
  /\ mounted' = mounted \ {c}
  /\ listeners' = Unsubscribed(listeners, c)
  /\ currentVideoIdRef' = [currentVideoIdRef EXCEPT ![c] = NoVideo]
  /\ lastProcessedUpdate' = [lastProcessedUpdate EXCEPT ![c] = 0]
  /\ player' = [player EXCEPT ![c] = NoPlayer]
  /\ last' = [NoLast EXCEPT !.c = c, !.op = "unmount"]
  /\ Input
  /\ UNCHANGED <<store, clock, skew, inbox, pending, latest>>
  /\ UNCHANGED <<roomState, isConnected, isLoading, error, isRemoteUpdate, timers>>
  /\ UNCHANGED <<captured, lastReportedTime, isSeeking>>
  /\ UNCHANGED <<fails, faults>>
  /\ UNCHANGED chatVars
  /\ UNCHANGED joinVars
  /\ UNCHANGED userName
  /\ UNCHANGED callVars

\* -------------------------------------------------------------- environment
\* the other user's client, not mounted here, writes a PlaybackState
PeerWrite ==
  /\ \E d \in Clients \ Here, v \in VideoIds, playing \in BOOLEAN, t \in Positions :
       updateVideoState(d, [videoId |-> v, isPlaying |-> playing, currentTime |-> t], TRUE)
  /\ last' = NoLast
  /\ Input
  /\ UNCHANGED fails
  /\ UNCHANGED <<skew, mounted, pending>>
  /\ UNCHANGED hookVars
  /\ UNCHANGED playerVars
  /\ UNCHANGED chatVars
  /\ UNCHANGED listeners
  /\ UNCHANGED faults
  /\ UNCHANGED joinVars
  /\ UNCHANGED userName
  /\ UNCHANGED callVars

\* a child of rooms/<roomId> changes (a chat message, a signalling record):
\* onValue of the room fires again with the same PlaybackState
StoreReplay ==
  /\ CanPush
  /\ inbox' = Push(inbox, store, TRUE, 0)
  /\ last' = NoLast
  /\ Input
  /\ UNCHANGED fails
  /\ UNCHANGED <<store, clock, skew, mounted, pending, latest>>
  /\ UNCHANGED hookVars
  /\ UNCHANGED playerVars
  /\ UNCHANGED chatVars
  /\ UNCHANGED listeners
  /\ UNCHANGED faults
  /\ UNCHANGED joinVars
  /\ UNCHANGED userName
  /\ UNCHANGED callVars

\* --------------------------------------------------------------------- chat
\* a text is its length without the surrounding white space (core) and the
\* length of that white space (pad)
Texts == [pad : {0, 1}, core : {0, 1, MAX_MESSAGE, MAX_MESSAGE + 1}]

\* text.trim()
Trim(text) == [text EXCEPT !.pad = 0]

\* !text.trim()
IsBlank(text) == Trim(text).core = 0

\* the collection holds the new message alone
Pushed_replace(msgs, m) == <<m>>

\* push(messagesRef, ...): a new child under a key after all the keys there
Pushed(msgs, m) == Append(msgs, m)

\* onValue(messagesRef, ...): every listener is pushed the collection
PushMessages(boxes, msgs) ==
  [d \in Clients |-> IF d \in listeners THEN Append(boxes[d], msgs) ELSE boxes[d]]

\* sendMessage(roomId, sender, text); some time may pass with the write
sendMessage(d, text) ==
  /\ Len(messages) < MaxChats
  /\ \A e \in listeners : Len(msgInbox[e]) < MaxChats
  /\ LET m == [id |-> Len(messages) + 1, sender |-> UserName(d), text |-> text,
               timestamp |-> DateNow(d)]
     IN /\ messages' = Pushed(messages, m)
        /\ msgInbox' = PushMessages(msgInbox, messages')
  /\ \E dt \in {0, 1} :
       /\ dt = 1 => clock < 2 + MaxWrites
       /\ clock' = clock + dt

\* sendChatMessage(text) of useRoomSync
sendChatMessage(c) ==
  /\ c \in mounted
  /\ Shown(c)
  /\ \E text \in Texts :
       IF IsBlank(text)
       THEN /\ UNCHANGED <<messages, msgInbox, clock, error, fails>>
            /\ last' = [NoLast EXCEPT !.c = c, !.op = "chat", !.text = text]
       ELSE \E ok \in BOOLEAN :
              /\ IF ok
                 THEN /\ sendMessage(c, Trim(text))
                      /\ UNCHANGED <<error, fails>>
                 ELSE /\ fails < MaxFails
                      /\ fails' = fails + 1
                      /\ error' = [error EXCEPT ![c] = ChatError]
                      /\ UNCHANGED <<messages, msgInbox, clock>>
              /\ last' = [NoLast EXCEPT !.c = c, !.op = "chat", !.text = text,
                            !.pub = IF ok THEN "ok" ELSE "fail"]
  /\ UNCHANGED <<store, skew, mounted, inbox, pending, latest>>
  /\ UNCHANGED <<roomState, isConnected, isLoading, isRemoteUpdate,
                 lastProcessedUpdate, currentVideoIdRef, timers>>
  /\ UNCHANGED playerVars
  /\ UNCHANGED <<acts, faults, listeners, chatView>>
  /\ UNCHANGED joinVars
  /\ UNCHANGED userName
  /\ UNCHANGED callVars

\* the other user's client sends a message
PeerChat ==
  /\ \E d \in Clients \ Here : sendMessage(d, [pad |-> 0, core |-> 1])
  /\ last' = NoLast
  /\ UNCHANGED <<store, skew, mounted, inbox, pending, latest>>
  /\ UNCHANGED hookVars
  /\ UNCHANGED playerVars
  /\ UNCHANGED <<acts, fails, faults, listeners, chatView>>
  /\ UNCHANGED joinVars
  /\ UNCHANGED userName
  /\ UNCHANGED callVars

\* the messages of the snapshot as they are stored
SortByTimestamp_asStored(msgs) == msgs

\* messages.sort((a, b) => a.timestamp - b.timestamp): a stable sort
RECURSIVE SortByTimestamp(_)
SortByTimestamp(msgs) ==
  IF msgs = <<>> THEN <<>>
  ELSE LET sorted == SortByTimestamp(SubSeq(msgs, 1, Len(msgs) - 1))
           m == msgs[Len(msgs)]
           before == {i \in 1..Len(sorted) : sorted[i].timestamp <= m.timestamp}
           k == IF before = {} THEN 0
                ELSE CHOOSE i \in before : \A j \in before : j <= i
       IN SubSeq(sorted, 1, k) \o <<m>> \o SubSeq(sorted, k + 1, Len(sorted))

\* the callback given to onValue by subscribeToMessages, then setMessages
OnMessages(c) ==
  /\ c \in listeners
  /\ msgInbox[c] # <<>>
  /\ msgInbox' = [msgInbox EXCEPT ![c] = Tail(@)]
  /\ chatView' = [chatView EXCEPT ![c] = SortByTimestamp(Head(msgInbox[c]))]
  /\ last' = [NoLast EXCEPT !.c = c, !.op = "messages", !.snap = Head(msgInbox[c])]
  /\ UNCHANGED storeVars
  /\ UNCHANGED hookVars
  /\ UNCHANGED playerVars
  /\ UNCHANGED <<acts, fails, faults, listeners, messages>>
  /\ UNCHANGED joinVars
  /\ UNCHANGED userName
  /\ UNCHANGED callVars

\* ---------------------------------------------------------- call signalling
\* rooms/<roomId>/webrtc/shared, where startCallShared and the listeners work
Shared == <<"shared", 0>>

\* const [oderId] = useState(() => `${userName}_${Date.now()}`): the name and
\* the time VideoCall was mounted, which differs from client to client
OderId(c) == <<UserName(c), c>>

\* the oderId field of data that carries none
NoId == <<"undefined", 0>>

Paths == {Shared} \cup {OderId(c) : c \in Clients}

\* a location snapshot.exists() is false for
NoSignal == [from |-> NoId, id |-> 0, timestamp |-> 0]

\* what sendSignal stores: the description (id names the offer it is, or the
\* offer it answers), the oderId put in the data, and the sender's Date.now()
Signal(from, id, ts) == [from |-> from, id |-> id, timestamp |-> ts]

EmptyNode == [offer |-> NoSignal, answer |-> NoSignal, ice |-> <<>>]

NoWebrtc == [p \in Paths |-> EmptyNode]

\* peerConnectionRef.current: null, or an RTCPeerConnection with the offer it
\* made (0: none), its remote description (0: none; the id of the offer or
\* of the answered offer), the remote candidates added, whether its
\* onicecandidate writes to the shared location, the candidates it gathered
NoPc == [open |-> FALSE, offer |-> 0, remote |-> 0, added |-> {}, shared |-> FALSE,
         cands |-> 0]

NewPc(offer, remote, shared) ==
  [open |-> TRUE, offer |-> offer, remote |-> remote, added |-> {},
   shared |-> shared, cands |-> 0]

Delivery(type, val) == [type |-> type, val |-> val]

IsOffer(e) == e.type = "offer"

IsNotOffer(e) == e.type # "offer"

\* the offer listener effect runs again (answerCall changed with
\* localStream): unsubOffer() drops what the old listener had not handled,
\* onValue of the new one delivers the offer the location holds
Resubscribed(box) ==
  LET rest == SelectSeq(box, IsNotOffer)
  IN IF webrtc[Shared].offer # NoSignal
     THEN Append(rest, Delivery("offer", webrtc[Shared].offer))
     ELSE rest

\* setLocalStream with a value that differs from the state
StreamSet(c, on) ==
  /\ localStream' = [localStream EXCEPT ![c] = on]
  /\ sigBox' = [sigBox EXCEPT ![c] =
                  IF localStream[c] # on THEN Resubscribed(@) ELSE @]

\* startCallShared, to the end of its await sendSignal
startCallShared(c) ==
  /\ c \in mounted
  /\ calls < MaxCalls
  /\ ~peerConnectionRef[c].open
  /\ answering[c] = NoSignal
  /\ ~ending[c]
  /\ \A e \in Clients : Len(sigBox[e]) < MaxInbox
  /\ LET offer == Signal(OderId(c), calls + 1, DateNow(c))
         mine == IF localStream[c] THEN sigBox[c] ELSE Resubscribed(sigBox[c])
     IN /\ webrtc' = [webrtc EXCEPT ![Shared].offer = offer]
        /\ sigBox' = [e \in Clients |->
                        Append(IF e = c THEN mine ELSE sigBox[e],
                               Delivery("offer", offer))]
        /\ peerConnectionRef' = [peerConnectionRef EXCEPT ![c] =
                                   NewPc(offer.id, 0, TRUE)]
  /\ isCallerRef' = [isCallerRef EXCEPT ![c] = TRUE]
  /\ localStream' = [localStream EXCEPT ![c] = TRUE]
  /\ calls' = calls + 1
  /\ clock' = clock + 1
  /\ last' = [NoLast EXCEPT !.c = c, !.op = "startCall"]
  /\ UNCHANGED <<iceBox, processedOfferTimestamp, processedAnswerTimestamp,
                 processedCandidates, answering, ending, answers, ends>>
  /\ UNCHANGED roomVars

\* a callback of subscribeToSignal(roomId, 'shared', ...) runs, to the first
\* await of answerCall (offer listener) or to its end (answer listener)
OnSignal(c) ==
  /\ c \in mounted
  /\ sigBox[c] # <<>>
  /\ answering[c] = NoSignal
  /\ LET e == Head(sigBox[c])
         val == e.val
         about == [NoLast EXCEPT !.c = c, !.op = "signal", !.cause = e.type]
     IN IF IsOffer(e)
        THEN IF val.from = OderId(c) \/ val.timestamp <= processedOfferTimestamp[c]
             THEN /\ UNCHANGED <<processedOfferTimestamp, answering, isCallerRef,
                                 peerConnectionRef>>
                  /\ UNCHANGED processedAnswerTimestamp
                  /\ last' = [about EXCEPT !.branch = "skipped"]
             ELSE /\ UNCHANGED processedAnswerTimestamp
                  /\ processedOfferTimestamp' =
                       [processedOfferTimestamp EXCEPT ![c] = val.timestamp]
                  /\ answering' = [answering EXCEPT ![c] = val]
                  /\ isCallerRef' = [isCallerRef EXCEPT ![c] = FALSE]
                  /\ peerConnectionRef' =
                       [peerConnectionRef EXCEPT ![c] =
                          IF localStream[c] THEN NewPc(0, 0, FALSE) ELSE @]
                  /\ last' = [about EXCEPT !.branch = "answering"]
        ELSE IF val.from = OderId(c) \/ val.timestamp <= processedAnswerTimestamp[c]
             THEN /\ UNCHANGED <<processedAnswerTimestamp, peerConnectionRef>>
                  /\ UNCHANGED <<processedOfferTimestamp, answering, isCallerRef>>
                  /\ last' = [about EXCEPT !.branch = "skipped"]
             ELSE /\ UNCHANGED <<processedOfferTimestamp, answering, isCallerRef>>
                  /\ processedAnswerTimestamp' =
                       [processedAnswerTimestamp EXCEPT ![c] = val.timestamp]
                  /\ peerConnectionRef' =
                       [peerConnectionRef EXCEPT ![c] =
                          IF isCallerRef[c] /\ @.open
                          THEN [@ EXCEPT !.remote = val.id] ELSE @]
                  /\ last' = [about EXCEPT !.branch = "answered"]
  /\ sigBox' = [sigBox EXCEPT ![c] = Tail(@)]
  /\ UNCHANGED <<webrtc, iceBox, processedCandidates, localStream, ending,
                 answers, calls, ends, clock>>
  /\ UNCHANGED roomVars

\* the rest of answerCall: getLocalMedia, createPeerConnection,
\* setRemoteDescription, createAnswer, sendSignal(roomId, oderId, 'answer', ...)
answerCall(c) ==
  /\ c \in mounted
  /\ answering[c] # NoSignal
  /\ LET offer == answering[c]
     IN /\ peerConnectionRef' = [peerConnectionRef EXCEPT ![c] =
                                   NewPc(0, offer.id, FALSE)]
        /\ webrtc' = [webrtc EXCEPT ![OderId(c)].answer =
                        Signal(NoId, offer.id, DateNow(c))]
        /\ answers' = [answers EXCEPT ![c] = Append(@, offer.id)]
        /\ last' = [NoLast EXCEPT !.c = c, !.op = "answerCall"]
  /\ StreamSet(c, TRUE)
  /\ answering' = [answering EXCEPT ![c] = NoSignal]
  /\ clock' = clock + 1
  /\ UNCHANGED <<iceBox, isCallerRef, processedOfferTimestamp,
                 processedAnswerTimestamp, processedCandidates, ending, calls,
                 ends>>
  /\ UNCHANGED roomVars

\* pc.onicecandidate with a candidate: the handler startCallShared installed
\* writes it with the oderId to the shared location, the one
\* createPeerConnection installed writes it as it is under the own oderId
onicecandidate(c) ==
  /\ c \in mounted
  /\ peerConnectionRef[c].open
  /\ peerConnectionRef[c].offer # 0 \/ peerConnectionRef[c].remote # 0
  /\ peerConnectionRef[c].cands < MaxCands
  /\ LET pc == peerConnectionRef[c]
         candidate == [from |-> IF pc.shared THEN OderId(c) ELSE NoId,
                       of |-> IF pc.shared THEN pc.offer ELSE pc.remote,
                       n |-> pc.cands + 1]
         path == IF pc.shared THEN Shared ELSE OderId(c)
     IN /\ pc.shared => \A e \in Clients : Len(iceBox[e]) < MaxInbox
        /\ webrtc' = [webrtc EXCEPT ![path].ice = Append(@, candidate)]
        /\ iceBox' = IF pc.shared
                     THEN [e \in Clients |-> Append(iceBox[e], webrtc'[Shared].ice)]
                     ELSE iceBox
        /\ peerConnectionRef' = [peerConnectionRef EXCEPT ![c].cands = @ + 1]
        /\ last' = [NoLast EXCEPT !.c = c, !.op = "candidate"]
  /\ UNCHANGED <<sigBox, isCallerRef, processedOfferTimestamp,
                 processedAnswerTimestamp, processedCandidates, localStream,
                 answering, ending, answers, calls, ends, clock>>
  /\ UNCHANGED roomVars

\* the candidates of a snapshot the listener has not seen and did not send
Fresh(c, snapshot) ==
  {k \in {snapshot[i] : i \in DOMAIN snapshot} :
     k.from # OderId(c) /\ k \notin processedCandidates[c]}

\* the callback of subscribeToIceCandidates(roomId, 'shared', ...) runs for
\* every child of a snapshot
OnIce(c) ==
  /\ c \in mounted
  /\ iceBox[c] # <<>>
  /\ LET fresh == Fresh(c, Head(iceBox[c]))
         pc == peerConnectionRef[c]
     IN /\ processedCandidates' = [processedCandidates EXCEPT ![c] = @ \cup fresh]
        /\ peerConnectionRef' =
             [peerConnectionRef EXCEPT ![c] =
                IF pc.open /\ pc.remote # 0
                THEN [@ EXCEPT !.added = @ \cup fresh] ELSE @]
        /\ last' = [NoLast EXCEPT !.c = c, !.op = "ice",
                      !.branch = IF fresh = {} THEN "skipped"
                                 ELSE IF pc.open /\ pc.remote # 0 THEN "added"
                                 ELSE "dropped"]
  /\ iceBox' = [iceBox EXCEPT ![c] = Tail(@)]
  /\ UNCHANGED <<webrtc, sigBox, isCallerRef, processedOfferTimestamp,
                 processedAnswerTimestamp, localStream, answering, ending,
                 answers, calls, ends, clock>>
  /\ UNCHANGED roomVars

\* endCall to its await: closePeerConnection (clearSignaling removes
\* webrtc/<oderId>), stopLocalMedia
endCall(c) ==
  /\ c \in mounted
  /\ ends < MaxEnds
  /\ peerConnectionRef[c].open
  /\ answering[c] = NoSignal
  /\ ~ending[c]
  /\ peerConnectionRef' = [peerConnectionRef EXCEPT ![c] = NoPc]
  /\ webrtc' = [webrtc EXCEPT ![OderId(c)] = EmptyNode]
  /\ StreamSet(c, FALSE)
  /\ ending' = [ending EXCEPT ![c] = TRUE]
  /\ ends' = ends + 1
  /\ last' = [NoLast EXCEPT !.c = c, !.op = "endCall"]
  /\ UNCHANGED <<iceBox, isCallerRef, processedOfferTimestamp,
                 processedAnswerTimestamp, processedCandidates, answering,
                 answers, calls, clock>>
  /\ UNCHANGED roomVars

\* the rest of endCall, after await setCallStatus
endCallReset(c) ==
  /\ c \in mounted
  /\ ending[c]
  /\ processedOfferTimestamp' = [processedOfferTimestamp EXCEPT ![c] = 0]
  /\ processedAnswerTimestamp' = [processedAnswerTimestamp EXCEPT ![c] = 0]
  /\ isCallerRef' = [isCallerRef EXCEPT ![c] = FALSE]
  /\ ending' = [ending EXCEPT ![c] = FALSE]
  /\ last' = [NoLast EXCEPT !.c = c, !.op = "endCallReset"]
  /\ UNCHANGED <<webrtc, sigBox, iceBox, peerConnectionRef, processedCandidates,
                 localStream, answering, answers, calls, ends, clock>>
  /\ UNCHANGED roomVars

\* the auto-start effect of VideoCall: the panel is visible and there is no
\* local stream
getLocalMedia(c) ==
  /\ c \in mounted
  /\ ~localStream[c]
  /\ answering[c] = NoSignal
  /\ StreamSet(c, TRUE)
  /\ last' = [NoLast EXCEPT !.c = c, !.op = "getLocalMedia"]
  /\ UNCHANGED <<webrtc, iceBox, peerConnectionRef, isCallerRef,
                 processedOfferTimestamp, processedAnswerTimestamp,
                 processedCandidates, answering, ending, answers, calls, ends,
                 clock>>
  /\ UNCHANGED roomVars

\* useWebRTC of every client right after it was mounted, nothing signalled
InitCalls ==
  /\ webrtc = NoWebrtc
  /\ sigBox = [c \in Clients |-> <<>>]
  /\ iceBox = [c \in Clients |-> <<>>]
  /\ peerConnectionRef = [c \in Clients |-> NoPc]
  /\ isCallerRef = [c \in Clients |-> FALSE]
  /\ processedOfferTimestamp = [c \in Clients |-> 0]
  /\ processedAnswerTimestamp = [c \in Clients |-> 0]
  /\ processedCandidates = [c \in Clients |-> {}]
  /\ localStream = [c \in Clients |-> FALSE]
  /\ answering = [c \in Clients |-> NoSignal]
  /\ ending = [c \in Clients |-> FALSE]
  /\ answers = [c \in Clients |-> <<>>]
  /\ calls = 0
  /\ ends = 0

\* ------------------------------------------------------------------ joining
\* a room whose first state has isPlaying set
createRoom_playing(creator, ts) == PlaybackState(NoVideo, TRUE, 0, ts, creator)

\* createRoom: the record set at rooms/<roomId>
createRoom(creator, ts) == PlaybackState(NoVideo, FALSE, 0, ts, creator)

\* a write that leaves the children it does not name in place
Replaced_kept(msgs) == msgs

\* set(roomRef, {...}): the children of rooms/<roomId> the record does not
\* name are gone, the messages among them
Replaced(msgs) == <<>>

\* handleCreateRoom of Home, by the other user, with the code that
\* generateRoomCode drew: set() puts the record in the place of whatever
\* rooms/<roomId> held, its messages included, and the listeners that are
\* registered there are pushed what changed
handleCreateRoom ==
  /\ clock < 2 + MaxWrites
  /\ CanPush
  /\ messages # <<>> => \A e \in listeners : Len(msgInbox[e]) < MaxChats
  /\ \E d \in Clients \ Here :
       /\ store' = createRoom(UserName(d), DateNow(d))
       /\ inbox' = Push(inbox, store', FALSE, d)
       /\ last' = [NoLast EXCEPT !.c = d, !.op = "create",
                     !.st = IF roomExists THEN store ELSE InitialRoomState,
                     !.snap = messages]
  /\ roomExists' = TRUE
  /\ messages' = Replaced(messages)
  /\ msgInbox' = IF messages' # messages
                 THEN PushMessages(msgInbox, messages') ELSE msgInbox
  /\ latest' = {store'}
  /\ clock' = clock + 1
  /\ UNCHANGED <<skew, mounted, pending>>
  /\ UNCHANGED hookVars
  /\ UNCHANGED playerVars
  /\ UNCHANGED chatView
  /\ UNCHANGED <<acts, fails, faults, listeners, isVerifying, roomNotFound>>
  /\ UNCHANGED userName
  /\ webrtc' = NoWebrtc
  /\ UNCHANGED <<sigBox, iceBox, peerConnectionRef, isCallerRef,
                 processedOfferTimestamp, processedAnswerTimestamp,
                 processedCandidates, localStream, answering, ending, calls,
                 ends, answers>>

\* handleCreateRoom with a code that identifies no room yet
CreateFresh == ~roomExists /\ handleCreateRoom

\* the Room page is opened for a room code: the first render calls
\* useRoomSync, and after it the effects run in the order of their hooks:
\* subscribeToRoom, subscribeToMessages, then verifyRoom is started.  A
\* listener on a path that holds a record is pushed that record
Room(c) ==
  /\ c \notin mounted
  /\ mounted' = mounted \cup {c}
  /\ listeners' = listeners \cup {c}
  /\ isVerifying' = [isVerifying EXCEPT ![c] = TRUE]
  /\ roomNotFound' = [roomNotFound EXCEPT ![c] = FALSE]
  /\ inbox' = [inbox EXCEPT ![c] =
                 IF roomExists THEN <<[data |-> store, again |-> FALSE, from |-> 0]>> ELSE <<>>]
  /\ msgInbox' = [msgInbox EXCEPT ![c] = <<messages>>]
  /\ pending' = [pending EXCEPT ![c] = <<>>]
  /\ roomState' = [roomState EXCEPT ![c] = InitialRoomState]
  /\ isConnected' = [isConnected EXCEPT ![c] = FALSE]
  /\ isLoading' = [isLoading EXCEPT ![c] = TRUE]
  /\ error' = [error EXCEPT ![c] = NoError]
  /\ isRemoteUpdate' = [isRemoteUpdate EXCEPT ![c] = FALSE]
  /\ lastProcessedUpdate' = [lastProcessedUpdate EXCEPT ![c] = 0]
  /\ currentVideoIdRef' = [currentVideoIdRef EXCEPT ![c] = NoVideo]
  /\ timers' = [timers EXCEPT ![c] = <<>>]
  /\ player' = [player EXCEPT ![c] = NoPlayer]
  /\ captured' = [captured EXCEPT ![c] = InitialRoomState]
  /\ lastReportedTime' = [lastReportedTime EXCEPT ![c] = 0]
  /\ isSeeking' = [isSeeking EXCEPT ![c] = FALSE]
  /\ chatView' = [chatView EXCEPT ![c] = <<>>]
  /\ last' = [NoLast EXCEPT !.c = c, !.op = "room"]
  /\ UNCHANGED <<store, clock, skew, latest, messages, roomExists>>
  /\ UNCHANGED <<acts, fails, faults>>
  /\ UNCHANGED userName
  /\ UNCHANGED callVars

\* checkRoomExists(roomId) of verifyRoom settles: the get resolved with
\* snapshot.exists(), or it was rejected (catch: setRoomNotFound(true))
verifyRoom(c) ==
  /\ c \in mounted
  /\ isVerifying[c]
  /\ \E ok \in BOOLEAN :
       LET exists == ok /\ roomExists
       IN /\ IF ok THEN UNCHANGED fails
                   ELSE fails < MaxFails /\ fails' = fails + 1
          /\ roomNotFound' = [roomNotFound EXCEPT ![c] = ~exists]
          /\ player' = [player EXCEPT ![c] = Render(exists, @, roomState[c])]
          /\ captured' = [captured EXCEPT ![c] =
                            Capture(exists, @, player[c], roomState[c])]
  /\ isVerifying' = [isVerifying EXCEPT ![c] = FALSE]
  /\ last' = [NoLast EXCEPT !.c = c, !.op = "verify"]
  /\ UNCHANGED storeVars
  /\ UNCHANGED hookVars
  /\ UNCHANGED <<lastReportedTime, isSeeking>>
  /\ UNCHANGED chatVars
  /\ UNCHANGED <<acts, faults, listeners, roomExists>>
  /\ UNCHANGED userName
  /\ UNCHANGED callVars

\* ------------------------------------------------------------ specification
\* the wall clocks of the users: one of them is right, the other is right
\* too or ahead by MaxSkew
Skews == {k \in [Clients -> {0, MaxSkew}] : \E c \in Clients : k[c] = 0}

\* the records a room can hold when a client joins it: the one createRoom
\* set, or one that an updateVideoState call left there
RoomsAt(ts, by) ==
  {createRoom(by, ts)}
  \cup {PlaybackState("a", playing, t, ts, by) : playing \in BOOLEAN, t \in Positions}

InitWith(m, rejected, thrown) ==
  /\ mounted = m
  /\ skew \in Skews
  /\ clock = 2
  /\ \E writer \in Clients :
       /\ store \in RoomsAt(1 + skew[writer], UserName(writer))
       /\ inbox = [c \in Clients |->
                     IF c \in m THEN <<[data |-> store, again |-> FALSE, from |-> 0]>> ELSE <<>>]
       /\ latest = {store}
  /\ pending = [c \in Clients |-> <<>>]
  /\ acts = 0
  /\ fails = rejected
  /\ faults = thrown
  /\ listeners = m
  /\ messages = <<>>
  /\ msgInbox = [c \in Clients |-> <<>>]
  /\ chatView = [c \in Clients |-> <<>>]
  /\ roomState = [c \in Clients |-> InitialRoomState]
  /\ isConnected = [c \in Clients |-> FALSE]
  /\ isLoading = [c \in Clients |-> TRUE]
  /\ error = [c \in Clients |-> NoError]
  /\ isRemoteUpdate = [c \in Clients |-> FALSE]
  /\ lastProcessedUpdate = [c \in Clients |-> 0]
  /\ currentVideoIdRef = [c \in Clients |-> NoVideo]
  /\ timers = [c \in Clients |-> <<>>]
  /\ player = [c \in Clients |-> NoPlayer]
  /\ captured = [c \in Clients |-> InitialRoomState]
  /\ lastReportedTime = [c \in Clients |-> 0]
  /\ isSeeking = [c \in Clients |-> FALSE]
  /\ isVerifying = [c \in Clients |-> FALSE]
  /\ roomNotFound = [c \in Clients |-> FALSE]
  /\ InitCalls
  /\ last = NoLast

ClientStep(c) ==
  \/ OnRoomData(c)
  \/ Ack(c)
  \/ FireTimer(c)
  \/ handlePlayerReady(c)
  \/ handleStateChange(c)
  \/ UserPlay(c)
  \/ UserPause(c)
  \/ UserSeek(c)
  \/ Advance(c)
  \/ handleLoadVideo(c)
  \/ handleMicStatusChange(c)
  \/ Unmount(c)

\* one client joins a room: the room has just been created, or it holds the
\* PlaybackState that the last updateVideoState call of a user left there;
\* the other user is a writer of the room
Init == userName = OwnNames /\ InitWith(Here, MaxFails, MaxFaults) /\ roomExists = TRUE

Next ==
  \/ ClientStep(1)
  \/ Tick
  \/ PeerWrite
  \/ StoreReplay

Spec == Init /\ [][Next]_vars

\* one client and a store that may reject a write; nobody else writes
InitLocal == userName = OwnNames /\ InitWith(Here, 0, MaxFaults) /\ roomExists = TRUE

NextLocal ==
  \/ ClientStep(1)
  \/ Tick

SpecLocal == InitLocal /\ [][NextLocal]_vars

\* the chat of a room just created, next to playback publishes
InitChat == InitLocal /\ store.videoId = NoVideo

NextChat ==
  \/ sendChatMessage(1)
  \/ PeerChat
  \/ OnMessages(1)
  \/ handleLoadVideo(1)

SpecChat == InitChat /\ [][NextChat]_vars

\* the client of Spec with a player whose commands may throw
InitFaulty == userName = OwnNames /\ InitWith(Here, MaxFails, 0) /\ roomExists = TRUE

SpecFaulty == InitFaulty /\ [][Next]_vars

\* nobody has opened the room page yet; the room code may resolve to nothing
InitJoin ==
  userName = OwnNames /\ InitWith({}, 0, MaxFaults) /\ roomExists \in BOOLEAN

NextJoin ==
  \/ Room(1)
  \/ verifyRoom(1)
  \/ CreateFresh
  \/ OnMessages(1)
  \/ ClientStep(1)
  \/ Tick

SpecJoin == InitJoin /\ [][NextJoin]_vars

\* the room page is opened on a room in use while the other user writes
InitOpening ==
  userName = OwnNames /\ InitWith({}, MaxFails, MaxFaults) /\ roomExists = TRUE

NextOpening ==
  \/ Room(1)
  \/ verifyRoom(1)
  \/ OnRoomData(1)
  \/ PeerWrite

SpecOpening == InitOpening /\ [][NextOpening]_vars

\* the client of Spec where neither user entered a name
InitGuest ==
  userName = GuestNames /\ InitWith(Here, MaxFails, MaxFaults) /\ roomExists = TRUE

SpecGuest == InitGuest /\ [][Next]_vars

\* a room with its chat, and a createRoom call that draws the room's code
NextCollide ==
  \/ handleCreateRoom
  \/ PeerChat
  \/ OnMessages(1)
  \/ OnRoomData(1)

SpecCollide == Init /\ [][NextCollide]_vars

\* both users are in the room, nothing was loaded, and they use the call panel
InitCall ==
  /\ userName = OwnNames
  /\ InitWith(Clients, MaxFails, MaxFaults)
  /\ roomExists = TRUE
  /\ store.videoId = NoVideo

NextCall ==
  \E c \in Clients :
    \/ startCallShared(c)
    \/ OnSignal(c)
    \/ answerCall(c)
    \/ onicecandidate(c)
    \/ OnIce(c)
    \/ endCall(c)
    \/ endCallReset(c)
    \/ getLocalMedia(c)

SpecCall == InitCall /\ [][NextCall]_vars

\* ================================================================= properties
Issued(cmds, name) == \E i \in 1..Len(cmds) : cmds[i] = name

Published == last.op = "intent" /\ last.pub \in {"ok", "fail"}

\* the projection of client c holds the values of the PlaybackState st
Reflects(c, st) ==
  /\ roomState[c].videoId = st.videoId
  /\ roomState[c].isPlaying = st.isPlaying
  /\ roomState[c].currentTime = st.currentTime

\* nothing is on its way to client c: no snapshot, no write outcome, no timer,
\* no player event, no player being created
Quiescent(c) ==
  /\ inbox[c] = <<>>
  /\ pending[c] = <<>>
  /\ timers[c] = <<>>
  /\ player[c].events = <<>>
  /\ player[c].stage # "created"

\* the last step ran the remote branch on a state of the video the client
\* knew, with the player handle present
RemoteSameMedia ==
  /\ last.op = "roomData"
  /\ last.branch = "remote"
  /\ last.hp
  /\ last.data.videoId # NoVideo
  /\ last.data.videoId = last.ref

\* C1 (no-echo): a player event caused by a command that the remote branch
\* issued (loadVideoById, seekTo, playVideo, pauseVideo, the delayed pauseVideo
\* included) never results in a publish by the client
C1_NoEcho == ~(Published /\ last.cause = "remote")

\* C2 (convergence), for each instance of the two: once every snapshot is
\* delivered, every write outcome is in and every timer has fired, the
\* instance's currentVideoIdRef and projected isPlaying are those of a
\* written PlaybackState with the latest lastUpdated
C2_Convergence ==
  \A c \in mounted :
    Quiescent(c) =>
      \E s \in latest :
        /\ currentVideoIdRef[c] = s.videoId
        /\ roomState[c].isPlaying = s.isPlaying

\* C3 (stale discard): a delivered state with lastUpdated <=
\* lastProcessedUpdate issues no player command and changes neither the
\* roomState projection nor lastProcessedUpdate
C3_StaleDiscard ==
  [][(/\ last'.op = "roomData"
      /\ last'.data.lastUpdated <= lastProcessedUpdate[last'.c])
     => /\ last'.cmds = <<>>
        /\ player' = player
        /\ roomState' = roomState
        /\ lastProcessedUpdate' = lastProcessedUpdate]_vars

C3_Witness ==
  /\ last.op = "roomData"
  /\ last.branch = "stale"
  /\ last.cause = "first"
  /\ last.hp
  /\ last.data.updatedBy # UserName(last.c)
  /\ last.data.isPlaying # roomState[last.c].isPlaying

\* C4 (staleness idempotence): the second delivery of a PlaybackState to a
\* client issues no player command and arms no timer
C4_Idempotence ==
  [][(last'.op = "roomData" /\ last'.cause = "again")
     => /\ last'.cmds = <<>>
        /\ player' = player
        /\ timers' = timers]_vars

C4_Witness ==
  /\ last.op = "roomData"
  /\ last.cause = "again"
  /\ last.hp
  /\ last.data.updatedBy # UserName(last.c)
  /\ last.data.isPlaying
  /\ last.pstate # PLAYING

C7_CurrentVideoId ==
  (Published /\ last.cause # "load") => last.st.videoId = last.proj

\* C8: with isRemoteUpdate set, sendPlay, sendPause, sendSeek and loadVideo
\* write nothing to the store and leave roomState, lastProcessedUpdate,
\* currentVideoIdRef and error as they are
C8_SuppressedNoOp ==
  [][(last'.op = "intent" /\ isRemoteUpdate[last'.c])
     => /\ store' = store
        /\ inbox' = inbox
        /\ pending' = pending
        /\ roomState' = roomState
        /\ lastProcessedUpdate' = lastProcessedUpdate
        /\ currentVideoIdRef' = currentVideoIdRef
        /\ error' = error]_vars

C8_Witness ==
  /\ last.op = "intent"
  /\ last.pub = "suppressed"
  /\ last.cause = "load"
  /\ isRemoteUpdate[last.c]

\* C9 (optimistic update): right after an unsuppressed sendPlay, sendPause,
\* sendSeek or loadVideo call, the write not yet acknowledged, the roomState
\* projection holds the requested values
C9_Optimistic == Published => Reflects(last.c, last.st)

\* C10 (publish failure): when the store rejects the write of an unsuppressed
\* action, error is set and the roomState projection holds the values of
\* the attempted action
C10_PublishFailure ==
  (last.op = "ack" /\ last.pub = "fail")
    => (error[last.c] = SyncError /\ Reflects(last.c, last.st))

\* C11 (never throws): when a player command fails in the own-update branch
\* or in the remote branch the callback still completes and
\* lastProcessedUpdate advances to the update's lastUpdated; when the store
\* write fails the failure is reported through error
C11_NeverThrows ==
  /\ (last.op = "roomData" /\ last.branch \in {"ownThrown", "remoteThrown"})
       => lastProcessedUpdate[last.c] = last.data.lastUpdated
  /\ (last.op = "ack" /\ last.pub = "fail") => error[last.c] = SyncError

\* C12: an unsuppressed loadVideo(id) publishes videoId = id, currentTime = 0
\* and isPlaying = TRUE, whatever the projection held
C12_LoadValues ==
  (Published /\ last.cause = "load")
    => /\ last.st.videoId = last.req
       /\ last.st.currentTime = 0
       /\ last.st.isPlaying
       /\ last.pub = "ok" =>
            (store.videoId = last.req /\ store.currentTime = 0 /\ store.isPlaying)

C12_Witness ==
  /\ Published
  /\ last.cause = "load"
  /\ last.pub = "ok"
  /\ ~roomState[last.c].isPlaying
  /\ roomState[last.c].currentTime # 0

\* C13 (scenario A): once the room callback of a client has run on the write
\* of the other client's load of media m, the client's projection is
\* videoId = m, isPlaying = TRUE, currentTime = 0
C13_ScenarioA ==
  (/\ last.op = "roomData"
   /\ last.cause = "first"
   /\ last.data.updatedBy # UserName(last.c)
   /\ last.data.videoId # NoVideo
   /\ last.data.isPlaying
   /\ last.data.currentTime = 0)
    => Reflects(last.c, last.data)

\* C14 (local projection): once a client is quiescent its projection
\* (videoId, isPlaying, currentTime) is that of a PlaybackState with the
\* greatest lastUpdated it has seen from the store
C14_Projection ==
  \A c \in mounted : Quiescent(c) => \E s \in latest : Reflects(c, s)

\* C15 (unmount unsubscribes): the cleanup resets currentVideoIdRef to empty
\* and lastProcessedUpdate to 0, and after it the room callback of the
\* client runs on no store update
C15_Unsubscribed ==
  [][/\ last'.op = "roomData" => last'.c \in mounted
     /\ last'.op = "unmount" =>
          /\ last'.c \notin mounted'
          /\ currentVideoIdRef'[last'.c] = NoVideo
          /\ lastProcessedUpdate'[last'.c] = 0]_vars

\* a snapshot was on its way to the client when it unmounted
C15_Witness ==
  /\ 1 \notin mounted
  /\ inbox[1] # <<>>
  /\ last.op # "unmount"

\* C16 (unmount clears timers): no timer armed before the unmount fires after
\* it
C16_TimersCleared ==
  [][last'.op = "timer" => last'.c \in mounted]_vars

\* C20: the lastUpdated of the stored PlaybackState never decreases from one
\* write to the next
C20_Monotone == [][store'.lastUpdated >= store.lastUpdated]_vars

\* C17 (chat ordering): the subscriber callback leaves the full set of the
\* snapshot's messages, sorted by ascending timestamp, equal timestamps in key
\* order; an empty collection gives an empty list
C17_ChatOrder ==
  last.op = "messages" =>
    LET v == chatView[last.c]
    IN /\ Len(v) = Len(last.snap)
       /\ {v[i] : i \in 1..Len(v)} = {last.snap[i] : i \in 1..Len(last.snap)}
       /\ \A i, j \in 1..Len(v) :
            i < j => \/ v[i].timestamp < v[j].timestamp
                     \/ (v[i].timestamp = v[j].timestamp /\ v[i].id < v[j].id)

\* the later message of the collection carries the smaller timestamp
C17_Witness ==
  /\ last.op = "messages"
  /\ Len(last.snap) = 2
  /\ last.snap[1].timestamp > last.snap[2].timestamp

\* C18 (chat send validation): sendChatMessage(text) appends exactly the
\* message {sender, trimmed text, timestamp} when the trimmed text has 1 to
\* MAX_MESSAGE characters, and writes nothing when the trimmed text is empty
\* or longer
C18_ChatValidation ==
  [][(last'.op = "chat" /\ last'.pub # "fail")
     => IF last'.text.core >= 1 /\ last'.text.core <= MAX_MESSAGE
        THEN messages' = Append(messages,
                                [id |-> Len(messages) + 1,
                                 sender |-> UserName(last'.c),
                                 text |-> [pad |-> 0, core |-> last'.text.core],
                                 timestamp |-> clock + skew[last'.c]])
        ELSE messages' = messages]_vars

\* C19 (append-only chat log): over chat sends and playback publishes the
\* stored messages only grow and no stored message changes
C19_AppendOnly ==
  [][/\ Len(messages') >= Len(messages)
     /\ SubSeq(messages', 1, Len(messages)) = messages]_vars

\* a playback publish with messages in the store, and a send after another
C19_Witness ==
  /\ Len(messages) = MaxChats
  /\ Published
  /\ last.pub = "ok"

\* C21 (RoomNotFound precedes engine construction): a client whose room code
\* does not resolve holds no subscription to the room's PlaybackState or
\* messages, neither while the code is being verified nor once it is found
\* missing
C21_NotFoundFirst ==
  \A c \in mounted :
    (~roomExists /\ (isVerifying[c] \/ roomNotFound[c])) => c \notin listeners

\* C22 (mic unmute pauses both users): whenever the microphone is turned on
\* with a player present, a paused state is published, in every state the
\* unmute can happen in
C22_MicPauses ==
  (last.op = "intent" /\ last.cause = "micOn")
    => (last.pub = "ok" /\ ~store.isPlaying /\ store.updatedBy = UserName(last.c))

\* C23 (initial PlaybackState): after createRoom(code, creator) the room
\* record has videoId = '', isPlaying = FALSE, currentTime = 0 and
\* updatedBy = creator
C23_InitialState ==
  last.op = "create"
    => /\ roomExists
       /\ store.videoId = NoVideo
       /\ ~store.isPlaying
       /\ store.currentTime = 0
       /\ store.updatedBy = UserName(last.c)

\* the room was created while a client had its page open
C23_Witness == last.op = "create" /\ listeners # {}

\* the settle delay of a remote update that client c applied has not elapsed
SettleOpen(c) ==
  \E i \in 1..Len(timers[c]) : timers[c][i].kind = "settle" /\ timers[c][i].left > 0

\* C24 (suppression extends on re-arm): while the settle delay of the latest
\* applied remote update has not elapsed, isRemoteUpdate stays set; the timer
\* of an earlier update does not clear it
C24_Extends == \A c \in mounted : SettleOpen(c) => isRemoteUpdate[c]

\* C25 (stale discard leaves the engine alone): a discarded stale update
\* leaves lastProcessedUpdate, isRemoteUpdate and currentVideoIdRef as they
\* were
C25_StaleFrame ==
  [][(last'.op = "roomData" /\ last'.branch = "stale")
     => /\ lastProcessedUpdate' = lastProcessedUpdate
        /\ isRemoteUpdate' = isRemoteUpdate
        /\ currentVideoIdRef' = currentVideoIdRef]_vars

\* the last step ran the remote branch, with the player handle present, on a
\* state whose videoId is not the one currentVideoIdRef held before the step
RemoteNewMedia ==
  /\ last.op = "roomData"
  /\ last.branch = "remote"
  /\ last.hp
  /\ last.data.videoId # last.ref

\* C26 (media change): a non-stale remote update whose videoId differs from
\* the one the client knew before the callback, the empty one included,
\* commands loadVideoById and, when the state is not playing, a later pause
C26_MediaChange ==
  RemoteNewMedia
    => /\ Issued(last.cmds, "loadVideoById")
       /\ ~last.data.isPlaying => Issued(last.armed, "pause")

\* C27 (media change wins): for a non-stale remote update that carries a
\* videoId different from the currentVideoIdRef the remote branch reads, the
\* commands issued are loadVideoById and, exactly when the state is not
\* playing, one delayed pauseVideo: no seekTo, no playVideo and no immediate
\* pauseVideo, whatever the player's position and state
C27_MediaWins ==
  (/\ last.op = "roomData"
   /\ last.branch = "remote"
   /\ last.hp
   /\ last.data.videoId # NoVideo
   /\ last.data.videoId # last.known)
    => /\ last.cmds = <<"loadVideoById">>
       /\ last.armed = Armed(~last.data.isPlaying, TRUE)

\* the new video arrives paused at a position far from the playing player's
C27_Witness ==
  /\ last.op = "roomData"
  /\ last.branch = "remote"
  /\ last.cmds = <<"loadVideoById">>
  /\ last.pstate = PLAYING
  /\ ~last.data.isPlaying
  /\ last.data.currentTime - last.ptime > SEEK_THRESHOLD

\* C28 (own echo): a non-stale update by the client itself commands
\* loadVideoById and sets currentVideoIdRef when its videoId differs from the
\* known one, and commands nothing otherwise; either way lastProcessedUpdate
\* becomes its lastUpdated, isRemoteUpdate is left alone and no settle timer
\* is armed
C28_OwnEcho ==
  [][(last'.op = "roomData" /\ last'.branch = "own" /\ last'.hp)
     => /\ IF last'.data.videoId # currentVideoIdRef[last'.c]
           THEN /\ last'.cmds = <<"loadVideoById">>
                /\ currentVideoIdRef'[last'.c] = last'.data.videoId
           ELSE last'.cmds = <<>>
        /\ lastProcessedUpdate'[last'.c] = last'.data.lastUpdated
        /\ isRemoteUpdate' = isRemoteUpdate
        /\ ~Issued(last'.armed, "settle")]_vars

\* C29 (follow-up pause inside the suppression window): the delayed pause of
\* a remote media change is commanded while isRemoteUpdate is still set,
\* whatever timers of earlier remote updates are pending
C29_PauseInWindow ==
  [][(last'.op = "timer" /\ last'.branch = "pause" /\ last'.cause = "remote")
     => isRemoteUpdate[last'.c]]_vars

\* C30 (publishes come from gestures): a client that opened a room holding a
\* video and made no gesture writes no PlaybackState; the events of the load
\* that handlePlayerReady commands are not published
C30_NoGestureNoWrite == ~(Published /\ last.cause = "ready" /\ acts = 0)

\* C31: after the room callback has processed a non-stale update, own or
\* remote, with a non-empty videoId, currentVideoIdRef is that videoId,
\* with or without a player
C31_RefFollows ==
  (/\ last.op = "roomData"
   /\ last.branch \in {"own", "remote"}
   /\ last.data.videoId # NoVideo)
    => currentVideoIdRef[last.c] = last.data.videoId

Max(a, b) == IF a >= b THEN a ELSE b

C33_NeverStuck ==
  \A c \in Clients :
    isRemoteUpdate[c] =>
      \E i \in 1..Len(timers[c]) :
        timers[c][i].kind = "settle" /\ timers[c][i].left <= SETTLE_DELAY

\* the settle timer of a remote update whose player command threw has fired
C33_Witness ==
  /\ last.op = "timer"
  /\ last.branch = "settle"
  /\ ~isRemoteUpdate[last.c]
  /\ faults > 0
  /\ timers[last.c] = <<>>

C37_AnswerArrives ==
  \A d \in Clients : \A c \in Clients \ {d} :
    (/\ peerConnectionRef[d].open
     /\ isCallerRef[d]
     /\ peerConnectionRef[d].offer # 0
     /\ answers[c] # <<>>
     /\ answers[c][Len(answers[c])] = peerConnectionRef[d].offer
     /\ sigBox[d] = <<>>)
    => peerConnectionRef[d].remote = peerConnectionRef[d].offer

\* C38 (no candidate of the peer is lost): a peer connection that has its
\* remote description, with no candidate snapshot in flight to its client,
\* has been given every candidate the peer published at the shared location
\* for that description
C38_NoCandidateLost ==
  \A c \in Clients :
    LET pc == peerConnectionRef[c]
        ice == webrtc[Shared].ice
    IN (pc.open /\ pc.remote # 0 /\ iceBox[c] = <<>>)
       => \A i \in DOMAIN ice :
            (ice[i].from # OderId(c) /\ ice[i].of = pc.remote)
            => ice[i] \in pc.added

\* C39 (an offer is answered at most once): no client has answered the same
\* offer twice
C39_AtMostOnce ==
  \A c \in Clients :
    \A i, j \in DOMAIN answers[c] :
      i # j => answers[c][i] # answers[c][j]

====
